---------------------------- MODULE Spec2Model ----------------------------
(***************************************************************************)
(* Model of epuck/comm/async.py: the asynchronous command/response manager *)
(* for the E-Puck robot (RequestHandler and AsyncComm).                    *)
(*                                                                         *)
(* One loop thread (AsyncComm.run) multiplexes the serial connection and   *)
(* the interrupt pipe; caller threads call send_command, stop and join;    *)
(* the robot (device) writes response frames to the serial connection.     *)
(***************************************************************************)
EXTENDS Integers, Sequences, FiniteSets, TLC

(***************************************************************************)
(* Bounds of the model.                                                    *)
(***************************************************************************)
\* number of calls by caller threads: send_command, stop and join together
MaxCalls == 3
\* number of events of the environment: clock ticks and frames sent by the
\* robot together
MaxEvents == 3

(***************************************************************************)
(* AsyncComm.timeout, in clock ticks (constructor argument, line 81/103).  *)
(***************************************************************************)
timeout == 1

None == "None"

(***************************************************************************)
(* Values.  A timestamp is a Python value: the caller passes an int for a  *)
(* text command; the loop decodes int(...) from a text frame (line 195)    *)
(* and a one-character str from a binary frame (line 190).  An int never   *)
(* equals a str, so the type is part of the value.                         *)
(***************************************************************************)
IntTs(n) == [ty |-> "int", v |-> n]
ChrTs(n) == [ty |-> "str", v |-> n]

\* Response codes are ord() of the code character: 49 is '1', the code of a
\* text response; 200 is the code of a binary response.
\* The (response_code, timestamp) pairs callers submit: two text commands.
HandlerKeys ==
    { [code |-> 49, ts |-> IntTs(10)],
      [code |-> 49, ts |-> IntTs(11)] }

\* frames on the wire: code byte, timestamp field (decimal digits of a text
\* line, or the echoed byte of a binary frame), payload
Frames ==
    { [code |-> 49, ts |-> 10, payload |-> "OK"],
      [code |-> 49, ts |-> 11, payload |-> "KO"],
      [code |-> 200, ts |-> 10, payload |-> "xyz"] }

Handlers == 1..MaxCalls

VARIABLES
    handlers,        \* RequestHandler objects created so far: <<key, ...>>
    response,        \* RequestHandler.response, per handler
    waiters,         \* threads waiting on RequestHandler.accomplished
    returned,        \* join() calls that returned normally, per handler
    raised,          \* join() calls that raised RuntimeError, per handler
    request_queue,   \* AsyncComm.request_queue (Queue.Queue)
    response_queue,  \* AsyncComm.response_queue (Queue.PriorityQueue)
    pipe,            \* bytes in the interrupt pipe, as a sequence of markers
    pendingNew,      \* callers between request_queue.put and os.write
    rx,              \* frames on the serial line not yet read by the loop
    running,         \* AsyncComm.running
    loopPc,          \* position of the loop thread
    exc,             \* the exception that ended the loop thread, if any
    input_sockets,   \* input_sockets returned by the last select call
    ready,           \* the part of input_sockets the for loop has yet to visit
    now,             \* time.time(), in ticks
    selStart,        \* time at which the current select call started
    writes,          \* history: times each command was written
    retriesT,        \* history: times the timeout scan re-enqueued it
    retriesM,        \* history: times a correlation scan re-enqueued it
    fulfilledBy,     \* history: the frames set_response was called for
    nframes,         \* history: frames sent by the device
    nstops,          \* history: stop() calls
    stopOnRunning    \* history: stop() was called while the loop was running

hist == <<writes, retriesT, retriesM, fulfilledBy, nframes, nstops,
          stopOnRunning>>
handlerVars == <<handlers, response, waiters, returned, raised>>
queueVars == <<request_queue, response_queue, pipe, pendingNew>>
loopVars == <<running, loopPc, exc, input_sockets, ready, selStart>>
vars == <<handlerVars, queueVars, loopVars, rx, now, hist>>

-----------------------------------------------------------------------------
(***************************************************************************)
(* RequestHandler                                                          *)
(***************************************************************************)

\* own_response comparing the code only
own_response_code_only(h, code, timestamp) ==
    code = handlers[h].code

\* RequestHandler.own_response
own_response(h, code, timestamp) ==
    code = handlers[h].code /\ handlers[h].ts = timestamp

\* RequestHandler.response_received
response_received(h) == response[h] # None


\* RequestHandler.set_response: store the response, then acquire the
\* condition, notify() and release.  Condition.notify() wakes one waiter,
\* the one that has waited longest; its wait() and join() then return.
Notified(w) == IF w = <<>> THEN <<>> ELSE Tail(w)

set_response(h, frame) ==
    /\ response' = [response EXCEPT ![h] = frame.payload]
    /\ returned' = [returned EXCEPT ![h] = @ + Len(waiters[h]) - Len(Notified(waiters[h]))]
    /\ waiters' = [waiters EXCEPT ![h] = Notified(@)]
    /\ fulfilledBy' = [fulfilledBy EXCEPT ![h] = Append(@, frame)]

RECURSIVE SumTo(_, _)
SumTo(f, n) == IF n = 0 THEN 0 ELSE f[n] + SumTo(f, n - 1)

JoinCalls ==
    SumTo([h \in Handlers |-> Len(waiters[h]) + returned[h] + raised[h]],
          MaxCalls)

\* calls made so far by caller threads
Calls == Len(handlers) + nstops + JoinCalls

\* events of the environment so far
Events == now + nframes

\* RequestHandler.join: self.accomplished.wait(), with no acquire and no
\* test of the response.  Condition.wait() raises RuntimeError ("cannot
\* wait on un-acquired lock") unless the calling thread owns the
\* condition's lock; join() never acquires it, so whether the caller holds
\* it (locked) is the caller's context.  When it does, wait() releases the
\* lock and blocks until a notify(); "late" records that the response was
\* already present when the wait began.
Join(h, locked) ==
    /\ h \in 1..Len(handlers)
    /\ Calls < MaxCalls
    /\ IF locked
         THEN /\ waiters' = [waiters EXCEPT ![h] =
                    Append(@, IF response_received(h) THEN "late" ELSE "early")]
              /\ UNCHANGED raised
         ELSE /\ raised' = [raised EXCEPT ![h] = @ + 1]
              /\ UNCHANGED waiters
    /\ UNCHANGED <<handlers, response, returned, queueVars, loopVars, rx, now, hist>>

-----------------------------------------------------------------------------
(***************************************************************************)
(* Queues                                                                  *)
(***************************************************************************)

\* a queue that hands out the newest element
QGetIndexLifo(q) == Len(q)

\* Queue.Queue.get takes the oldest element: the index it removes.
QGetIndex(q) == 1

\* a get that leaves the element in the queue
RemoveAtKeep(q, i) == q

RemoveAt(q, i) == SubSeq(q, 1, i - 1) \o SubSeq(q, i + 1, Len(q))

\* Order of Queue.PriorityQueue on the tuples (sent_time, request).  The
\* clock has a finer resolution than a tick: n numbers the reads of
\* time.time() in _write_request (one per write), so (t, n) is the
\* sent_time.
Before(a, b) == a.t < b.t \/ (a.t = b.t /\ a.n < b.n)

\* PriorityQueue.put: the queue is kept as the sorted sequence of its
\* entries, oldest first.
PQPut(q, e) ==
    LET k == Cardinality({i \in 1..Len(q) : Before(q[i], e)})
    IN  SubSeq(q, 1, k) \o <<e>> \o SubSeq(q, k + 1, Len(q))

\* one marker more than the requests enqueued
NewsExtra(n) == [i \in 1..(n + 1) |-> "NEW"]

\* the markers n calls of _enqueue_request write to the pipe
RECURSIVE News(_)
News(n) == IF n = 0 THEN <<>> ELSE <<"NEW">> \o News(n - 1)

\* a correlation scan that leaves the owning entry in the queue
RECURSIVE _get_request_keep(_, _, _)
_get_request_keep(q, code, timestamp) ==
    IF q = <<>>
      THEN [found |-> 0, requeue |-> <<>>, rest |-> <<>>]
      ELSE IF own_response(q[1].h, code, timestamp)
             THEN [found |-> q[1].h, requeue |-> <<>>, rest |-> q]
             ELSE LET r == _get_request_keep(Tail(q), code, timestamp)
                  IN  [r EXCEPT !.requeue = <<q[1].h>> \o @]

\* a correlation scan that drops the entries it pops before the match
RECURSIVE _get_request_drop(_, _, _)
_get_request_drop(q, code, timestamp) ==
    IF q = <<>>
      THEN [found |-> 0, requeue |-> <<>>, rest |-> <<>>]
      ELSE IF own_response(q[1].h, code, timestamp)
             THEN [found |-> q[1].h, requeue |-> <<>>, rest |-> Tail(q)]
             ELSE _get_request_drop(Tail(q), code, timestamp)

\* AsyncComm._get_request: pop entries oldest first; the first one that
\* owns the response is returned (found), every entry popped before it is
\* enqueued again (requeue); found = 0 when the queue ran empty
\* (AsyncCommError is raised).
RECURSIVE _get_request(_, _, _)
_get_request(q, code, timestamp) ==
    IF q = <<>>
      THEN [found |-> 0, requeue |-> <<>>, rest |-> <<>>]
      ELSE IF own_response(q[1].h, code, timestamp)
             THEN [found |-> q[1].h, requeue |-> <<>>, rest |-> Tail(q)]
             ELSE LET r == _get_request(Tail(q), code, timestamp)
                  IN  [r EXCEPT !.requeue = <<q[1].h>> \o @]

InSeq(x, q) == \E i \in 1..Len(q) : q[i] = x

-----------------------------------------------------------------------------
(***************************************************************************)
(* Callers                                                                 *)
(***************************************************************************)

\* AsyncComm.send_command up to request_queue.put in _enqueue_request.
\* The caller keeps (response_code, timestamp) unique among the requests
\* that have no response yet.
send_command(key) ==
    /\ Calls < MaxCalls
    /\ \A h \in 1..Len(handlers) : response_received(h) \/ handlers[h] # key
    /\ handlers' = Append(handlers, key)
    /\ request_queue' = Append(request_queue, Len(handlers) + 1)
    /\ pendingNew' = pendingNew + 1
    /\ UNCHANGED <<response, waiters, returned, raised, response_queue, pipe,
                   loopVars, rx, now, hist>>

\* The caller's os.write(self.interrupt_fd_write, "NEW") in _enqueue_request.
EnqueueNotify ==
    /\ pendingNew > 0
    /\ pendingNew' = pendingNew - 1
    /\ pipe' = Append(pipe, "NEW")
    /\ UNCHANGED <<handlerVars, request_queue, response_queue, loopVars, rx, now, hist>>

LoopAlive == loopPc \in {"select", "dispatch", "scan", "get_blocked"}

\* AsyncComm.stop
stop ==
    /\ Calls < MaxCalls
    /\ pipe' = Append(pipe, "STOP")
    /\ nstops' = nstops + 1
    /\ stopOnRunning' = (stopOnRunning \/ LoopAlive)
    /\ UNCHANGED <<handlerVars, request_queue, response_queue, pendingNew,
                   loopVars, rx, now, writes, retriesT, retriesM,
                   fulfilledBy, nframes>>

\* AsyncComm.start
start ==
    /\ loopPc = "init"
    /\ running' = TRUE
    /\ loopPc' = "select"
    /\ selStart' = now
    /\ UNCHANGED <<handlerVars, queueVars, exc, input_sockets, ready, rx, now,
                   hist>>

-----------------------------------------------------------------------------
(***************************************************************************)
(* Environment: the robot and the clock                                    *)
(***************************************************************************)

DeviceSend(f) ==
    /\ Events < MaxEvents
    /\ rx' = Append(rx, f)
    /\ nframes' = nframes + 1
    /\ UNCHANGED <<handlerVars, queueVars, loopVars, now, writes, retriesT,
                   retriesM, fulfilledBy, nstops, stopOnRunning>>

Tick ==
    /\ Events < MaxEvents
    /\ now' = now + 1
    /\ UNCHANGED <<handlerVars, queueVars, loopVars, rx, hist>>

-----------------------------------------------------------------------------
(***************************************************************************)
(* The loop thread: AsyncComm.run                                          *)
(***************************************************************************)

\* a loop that tests no flag: "while True"
NextIterationForever(r) ==
    /\ UNCHANGED exc
    /\ loopPc' = "select"
    /\ selStart' = now

\* End of an iteration of "while self.running": the next select call, or
\* the end of run().
NextIteration(r) ==
    /\ UNCHANGED exc
    /\ IF r THEN /\ loopPc' = "select"
                 /\ selStart' = now
            ELSE /\ loopPc' = "exited"
                 /\ UNCHANGED selStart

\* An exception leaves run(): the thread ends, self.running stays as it is.
Crash(e) ==
    /\ loopPc' = "crashed"
    /\ exc' = e
    /\ UNCHANGED <<running, selStart>>

\* select.select returns the inputs that are readable.
SelectReady ==
    /\ loopPc = "select"
    /\ rx # <<>> \/ pipe # <<>>
    /\ ready' = (IF rx # <<>> THEN {"serial"} ELSE {})
                    \cup (IF pipe # <<>> THEN {"pipe"} ELSE {})
    /\ input_sockets' = ready'
    /\ loopPc' = "dispatch"
    /\ UNCHANGED <<handlerVars, queueVars, running, exc, selStart, rx, now, hist>>

\* select.select returns no input after self.timeout: the timeout scan
\* starts.
SelectTimeout ==
    /\ loopPc = "select"
    /\ rx = <<>> /\ pipe = <<>>
    /\ now - selStart >= timeout
    /\ loopPc' = "scan"
    /\ ready' = {}
    /\ input_sockets' = {}
    /\ UNCHANGED <<handlerVars, queueVars, running, exc, selStart, rx, now, hist>>

\* a timeout scan that puts the young entry back with the current time
_check_requests_timeout_restamp ==
    /\ loopPc = "scan"
    /\ response_queue # <<>>
    /\ LET e == Head(response_queue)
       IN  IF now - e.t > timeout
             THEN /\ response_queue' = Tail(response_queue)
                  /\ request_queue' = Append(request_queue, e.h)
                  /\ pipe' = Append(pipe, "NEW")
                  /\ retriesT' = [retriesT EXCEPT ![e.h] = @ + 1]
                  /\ UNCHANGED <<loopPc, exc, selStart>>
             ELSE /\ response_queue' = PQPut(Tail(response_queue), [e EXCEPT !.t = now])
                  /\ NextIteration(running)
                  /\ UNCHANGED <<request_queue, pipe, retriesT>>
    /\ UNCHANGED <<handlerVars, pendingNew, running, input_sockets, ready, rx, now,
                   writes, retriesM, fulfilledBy, nframes, nstops,
                   stopOnRunning>>

\* One iteration of the while loop of AsyncComm._check_requests_timeout.
\* response_queue.get() blocks while the queue is empty, and only the loop
\* thread puts into it.
_check_requests_timeout ==
    /\ loopPc = "scan"
    /\ response_queue # <<>>
    /\ LET e == Head(response_queue)
       IN  IF now - e.t > timeout
             THEN /\ response_queue' = Tail(response_queue)
                  /\ request_queue' = Append(request_queue, e.h)
                  /\ pipe' = Append(pipe, "NEW")
                  /\ retriesT' = [retriesT EXCEPT ![e.h] = @ + 1]
                  /\ UNCHANGED <<loopPc, exc, selStart>>
             ELSE /\ response_queue' = PQPut(Tail(response_queue), e)
                  /\ NextIteration(running)
                  /\ UNCHANGED <<request_queue, pipe, retriesT>>
    /\ UNCHANGED <<handlerVars, pendingNew, running, input_sockets, ready, rx, now,
                   writes, retriesM, fulfilledBy, nframes, nstops,
                   stopOnRunning>>

\* After a handler of the for loop over input_sockets.
AfterHandler(left, r) ==
    /\ ready' = left
    /\ IF left = {} THEN NextIteration(r)
                     ELSE UNCHANGED <<loopPc, exc, selStart>>

\* The (code, timestamp) _read_response decodes from a frame: the
\* timestamp of a binary frame (code >= 127) is the character read, the
\* timestamp of a text frame is int() of the digits before the comma.
FrameKey(f) ==
    [code |-> f.code, ts |-> IF f.code >= 127 THEN ChrTs(f.ts) ELSE IntTs(f.ts)]

\* AsyncComm._read_response and _save_response, for the first frame on the
\* line.  raises: a read of the connection raises, or the line is not
\* "<decimal>,<payload>".  A frame whose code is >= 127 is binary:
\* _read_binary_data computes hi << 8 + lo on the two characters read,
\* which raises TypeError.  The text payload is the rest of the line.
\* No match in the response queue: _get_request raises AsyncCommError.
_read_response(raises) ==
    /\ loopPc = "dispatch"
    /\ "serial" \in ready
    /\ rx # <<>>
    /\ LET f == Head(rx)
           k == FrameKey(f)
           r == _get_request(response_queue, k.code, k.ts)
       IN  /\ rx' = Tail(rx)
           /\ IF raises \/ f.code >= 127
                THEN /\ Crash(IF raises THEN "IOError" ELSE "TypeError")
                     /\ UNCHANGED <<handlerVars, queueVars, ready, hist>>
                ELSE /\ response_queue' = r.rest
                     /\ request_queue' = request_queue \o r.requeue
                     /\ pipe' = pipe \o News(Len(r.requeue))
                     /\ retriesM' = [h \in Handlers |->
                            IF InSeq(h, r.requeue) THEN retriesM[h] + 1
                                                   ELSE retriesM[h]]
                     /\ IF r.found = 0
                          THEN /\ Crash("AsyncCommError")
                               /\ UNCHANGED <<response, waiters, returned,
                                              fulfilledBy, ready>>
                          ELSE /\ set_response(r.found, f)
                               /\ AfterHandler(ready \ {"serial"}, running)
                               /\ UNCHANGED running
                     /\ UNCHANGED <<handlers, raised, pendingNew,
                                    writes, retriesT, nframes, nstops,
                                    stopOnRunning>>
    /\ UNCHANGED <<input_sockets, now>>

\* AsyncComm._process_interrupt.  os.read(fd, 0xff) returns every byte in
\* the pipe (the markers are 3 and 4 bytes long): command is the
\* concatenation of the pending markers, and command_handlers[command]
\* raises KeyError unless it is exactly 'NEW' or 'STOP'.
\* 'NEW' runs _write_request (fails: serial_connection.write raises);
\* 'STOP' runs _stop_main_loop.
_process_interrupt(fails) ==
    /\ loopPc = "dispatch"
    /\ "serial" \notin ready
    /\ "pipe" \in ready
    /\ pipe # <<>>
    /\ pipe' = <<>>
    /\ IF pipe = <<"NEW">>
         THEN IF request_queue = <<>>
                THEN \* request_queue.get() blocks
                     /\ loopPc' = "get_blocked"
                     /\ UNCHANGED <<request_queue, response_queue, running,
                                    exc, ready, selStart, writes>>
                ELSE LET i == QGetIndex(request_queue)
                         h == request_queue[i]
                     IN  /\ request_queue' = RemoveAt(request_queue, i)
                         /\ IF fails
                              THEN /\ Crash("IOError")
                                   /\ UNCHANGED <<response_queue, ready, writes>>
                              ELSE /\ writes' = [writes EXCEPT ![h] = @ + 1]
                                   /\ response_queue' = PQPut(response_queue,
                                          [t |-> now, n |-> SumTo(writes, MaxCalls),
                                           h |-> h])
                                   /\ AfterHandler({}, running)
                                   /\ UNCHANGED running
         ELSE IF pipe = <<"STOP">>
                THEN /\ running' = FALSE
                     /\ AfterHandler({}, FALSE)
                     /\ UNCHANGED <<request_queue, response_queue, writes>>
                ELSE /\ Crash("KeyError")
                     /\ UNCHANGED <<request_queue, response_queue, ready,
                                    writes>>
    /\ UNCHANGED <<handlerVars, pendingNew, input_sockets, rx, now, retriesT,
                   retriesM, fulfilledBy, nframes, nstops, stopOnRunning>>

-----------------------------------------------------------------------------
Init ==
    /\ handlers = <<>>
    /\ response = [h \in Handlers |-> None]
    /\ waiters = [h \in Handlers |-> <<>>]
    /\ returned = [h \in Handlers |-> 0]
    /\ raised = [h \in Handlers |-> 0]
    /\ request_queue = <<>>
    /\ response_queue = <<>>
    /\ pipe = <<>>
    /\ pendingNew = 0
    /\ rx = <<>>
    /\ running = FALSE
    /\ loopPc = "init"
    /\ exc = None
    /\ input_sockets = {}
    /\ ready = {}
    /\ now = 0
    /\ selStart = 0
    /\ writes = [h \in Handlers |-> 0]
    /\ retriesT = [h \in Handlers |-> 0]
    /\ retriesM = [h \in Handlers |-> 0]
    /\ fulfilledBy = [h \in Handlers |-> <<>>]
    /\ nframes = 0
    /\ nstops = 0
    /\ stopOnRunning = FALSE

LoopNext ==
    \/ SelectReady
    \/ SelectTimeout
    \/ _check_requests_timeout
    \/ \E raises \in BOOLEAN : _read_response(raises)
    \/ \E fails \in BOOLEAN : _process_interrupt(fails)

Next ==
    \/ \E key \in HandlerKeys : send_command(key)
    \/ EnqueueNotify
    \/ stop
    \/ start
    \/ \E h \in Handlers, locked \in BOOLEAN : Join(h, locked)
    \/ \E f \in Frames : DeviceSend(f)
    \/ Tick
    \/ LoopNext

Spec == Init /\ [][Next]_vars

\* The loop thread and a caller inside _enqueue_request are scheduled; the
\* callers' calls, the robot and the clock are not obliged to act.
FairSpec == Spec /\ WF_vars(LoopNext) /\ WF_vars(EnqueueNotify)

-----------------------------------------------------------------------------
(***************************************************************************)
(* Properties                                                              *)
(***************************************************************************)

Created == 1..Len(handlers)

InResponseQueue(h) == \E i \in 1..Len(response_queue) : response_queue[i].h = h

\* C1: every call of set_response on a handler was made for a frame that
\* carried the handler's own (response_code, timestamp), and the handler's
\* response is the payload of that frame: payloads are never swapped.
C1_OwnPayloadOnly ==
    \A h \in Created :
        /\ \A i \in 1..Len(fulfilledBy[h]) : FrameKey(fulfilledBy[h][i]) = handlers[h]
        /\ response[h] = IF fulfilledBy[h] = <<>>
                           THEN None
                           ELSE fulfilledBy[h][Len(fulfilledBy[h])].payload

\* Two requests were in flight together, the frame of the later one arrived
\* first (the earlier one was re-enqueued by the correlation scan), and
\* both have their response.
C1_Witness ==
    /\ Len(handlers) = 2
    /\ handlers[1] # handlers[2]
    /\ retriesM[1] > 0
    /\ response_received(1) /\ response_received(2)

\* C2: commands are first written in the order of their enqueues, and a
\* command is written again only after the timeout scan or a correlation
\* scan re-enqueued it.
C2_FifoTransmission ==
    /\ \A a, b \in Created : a < b /\ writes[b] > 0 => writes[a] > 0
    /\ \A h \in Created : writes[h] <= 1 + retriesT[h] + retriesM[h]

\* Two commands were written, one of them a second time.
C2_Witness ==
    /\ Len(handlers) = 2
    /\ writes[1] > 0 /\ writes[2] > 0
    /\ \E h \in Created : writes[h] >= 2

LoopEnded == loopPc \in {"exited", "crashed"}

\* The loop thread is inside a Queue.get() that cannot return.  Only the
\* loop thread puts into response_queue, so a loop thread blocked in
\* response_queue.get() stays blocked for good.
LoopBlocked == loopPc \in {"scan", "get_blocked"} /\ ~ENABLED LoopNext

\* C3: while a request that the timeout scan found older than timeout
\* waits in the request queue for its retransmission, the running loop is
\* able to proceed to it.
C3_TimeoutRetransmits ==
    \A h \in Created :
        retriesT[h] > 0 /\ InSeq(h, request_queue) => ~LoopBlocked

\* C4: when the loop reads a frame (no read raises) whose (code, timestamp)
\* is that of a handler in the response queue, the handler gets the
\* frame's payload, leaves the response queue, and no thread stays blocked
\* in join() on it.
C4_DeliverAndRelease ==
    [][\A h \in Created :
          (/\ loopPc = "dispatch" /\ "serial" \in ready
           /\ rx # <<>> /\ rx' = Tail(rx)
           /\ exc' # "IOError"
           /\ InResponseQueue(h)
           /\ FrameKey(Head(rx)) = handlers[h])
          => (/\ response'[h] = Head(rx).payload
              /\ ~InResponseQueue(h)'
              /\ waiters'[h] = <<>>)]_vars

\* C5: a call of join() that has ended (returned or raised) ended with the
\* response present.
C5_JoinEndsWithResponse ==
    \A h \in Created : returned[h] + raised[h] > 0 => response_received(h)

\* join() calls made on a handler
JoinsOn(h) == Len(waiters[h]) + returned[h] + raised[h]

\* C6: when the response of a handler is present, the one caller of
\* join() on it is not blocked in join().  (set_response is called at most
\* once per handler, so a caller blocked then is never woken.)
C6_NoLostWakeup ==
    \A h \in Created :
        response_received(h) /\ JoinsOn(h) = 1 => waiters[h] = <<>>

\* C7: once set_response has run, no thread that was blocked in join()
\* before it is still blocked.
C7_AllWaitersReleased ==
    \A h \in Created : response_received(h) => ~InSeq("early", waiters[h])

\* C8: set_response is called at most once per handler and a present
\* response never changes.
C8_SetOnce ==
    /\ [](\A h \in Handlers :
            /\ Len(fulfilledBy[h]) <= 1
            /\ response_received(h) <=> fulfilledBy[h] # <<>>)
    /\ [][\A h \in Handlers :
            response_received(h) =>
                response'[h] = response[h] /\ fulfilledBy'[h] = fulfilledBy[h]]_vars

\* The loop is about to read a second frame with the pair of a handler
\* that already has its response.
C8_Witness ==
    \E h \in Created :
        /\ response_received(h)
        /\ loopPc = "dispatch" /\ "serial" \in ready /\ rx # <<>>
        /\ FrameKey(Head(rx)) = handlers[h]

Count(q, x) == Cardinality({i \in 1..Len(q) : q[i] = x})

CountResponseQueue(h) ==
    Cardinality({i \in 1..Len(response_queue) : response_queue[i].h = h})

\* C9: a handler without response is in exactly one of the request queue
\* and the response queue, once.
C9_ExactlyOneQueue ==
    \A h \in Created :
        ~response_received(h) =>
            Count(request_queue, h) + CountResponseQueue(h) = 1

\* C10: after stop() is called on a running loop, the loop thread is able
\* to proceed until it has ended.
C10_StopExits ==
    stopOnRunning => ~LoopBlocked

\* _stop_main_loop has run: the loop has read the 'STOP' marker.
Stopped == loopPc # "init" /\ ~running

\* C11: once the loop has read the 'STOP' marker, no frame is taken from
\* the serial connection and no handler gets a response.
C11_NoReadAfterStop ==
    [][Stopped =>
          /\ rx = <<>> \/ rx' # Tail(rx)
          /\ response' = response
          /\ fulfilledBy' = fulfilledBy]_vars

\* The select call that returned the 'STOP' marker also returned the serial
\* connection; the loop has ended and a frame is still on the line.
C11_Witness ==
    /\ Stopped
    /\ loopPc = "exited"
    /\ input_sockets = {"serial", "pipe"}
    /\ rx # <<>>

\* C12: two commands A (handler 1) then B (handler 2) with different
\* timestamps were both written and B's frame was read first (its scan
\* re-enqueued A, B has its response).  When the loop then reads A's frame
\* (no read raises), A gets the payload of that frame.
C12_ReverseOrderBothFulfilled ==
    [][(/\ Len(handlers) >= 2
        /\ handlers[1] # handlers[2]
        /\ writes[1] > 0 /\ writes[2] > 0
        /\ retriesM[1] > 0 /\ fulfilledBy[2] # <<>>
        /\ ~response_received(1)
        /\ loopPc = "dispatch" /\ "serial" \in ready
        /\ rx # <<>> /\ rx' = Tail(rx)
        /\ exc' # "IOError"
        /\ FrameKey(Head(rx)) = handlers[1])
       => response'[1] = Head(rx).payload]_vars

\* C13: the loop never decodes from the interrupt pipe a value other than
\* 'NEW' or 'STOP': the lookup in command_handlers never raises KeyError.
C13_DiscreteMarkers ==
    exc # "KeyError"

\* C14: a frame that matches no request in the response queue does not
\* end the loop thread.
C14_MissRecoverable ==
    exc = "AsyncCommError" => ~LoopEnded

\* C15: after a read or a write of the serial connection raised, the loop
\* has ended, every handler has a result and no thread is blocked in
\* join().
C15_FailureReleasesHandlers ==
    exc = "IOError" =>
        /\ LoopEnded
        /\ \A h \in Created : response_received(h) /\ waiters[h] = <<>>

\* C16: the timeout scan is always able to take its next step: it never
\* waits in response_queue.get().
C16_ScanNeverBlocks ==
    loopPc = "scan" => ENABLED _check_requests_timeout

\* C17: an iteration of the timeout scan moves the oldest entry of the
\* response queue to the request queue (with one 'NEW' marker) only when
\* its age exceeds timeout, and goes on; otherwise it leaves the response
\* queue (entries and send times) and the request queue as they are and
\* the scan ends.
C17_ScanMovesOldOnly ==
    [][(/\ loopPc = "scan"
        /\ \/ loopPc' # "scan"
           \/ retriesT' # retriesT
           \/ response_queue' # response_queue)
       => LET e == Head(response_queue)
          IN  IF now - e.t > timeout
                THEN /\ response_queue' = Tail(response_queue)
                     /\ request_queue' = Append(request_queue, e.h)
                     /\ pipe' = Append(pipe, "NEW")
                     /\ loopPc' = "scan"
                ELSE /\ response_queue' = response_queue
                     /\ request_queue' = request_queue
                     /\ pipe' = pipe
                     /\ loopPc' # "scan"]_vars

\* A timeout scan moved an old entry to the request queue, met an entry
\* within timeout, put it back and returned to select.
C17_Witness ==
    /\ loopPc = "select"
    /\ response_queue # <<>>
    /\ now - Head(response_queue).t <= timeout
    /\ \E h \in Created : retriesT[h] > 0 /\ InSeq(h, request_queue)

\* position in the response queue of the oldest entry that owns the
\* response (code, timestamp); Len(q) + 1 when no entry owns it
FirstOwner(q, code, timestamp) ==
    LET S == {i \in 1..Len(q) : own_response(q[i].h, code, timestamp)}
    IN  IF S = {} THEN Len(q) + 1
                  ELSE CHOOSE i \in S : \A j \in S : i <= j

C19_MarkersWithinQueue ==
    /\ Count(pipe, "NEW") <= Len(request_queue)
    /\ loopPc # "get_blocked"

\* The loop has dequeued and written twice, and every request still in the
\* request queue has its marker in the pipe.
C19_Witness ==
    /\ SumTo(writes, MaxCalls) >= 2
    /\ request_queue # <<>>
    /\ Count(pipe, "NEW") = Len(request_queue)

\* C20: a handler whose response is present is in neither queue, and its
\* command is not written again.
C20_FulfilledIsDone ==
    /\ [](\A h \in Created :
            response_received(h) =>
                ~InSeq(h, request_queue) /\ ~InResponseQueue(h))
    /\ [][\A h \in Handlers :
            response_received(h) => writes'[h] = writes[h]]_vars

\* A handler that the timeout scan had re-enqueued was written a second
\* time and has its response; another request waits in the request queue.
C20_Witness ==
    \E h \in Created :
        /\ response_received(h)
        /\ retriesT[h] > 0
        /\ writes[h] = 2
        /\ \E g \in Created : g # h /\ InSeq(g, request_queue)

=============================================================================
